---- MODULE Spec2Model ----
(***************************************************************************)
(* Track metadata generator of dj-slammer-app:                             *)
(*   public/audio/analyze_audio.py     (AudioAnalyzer, the analyzer run)    *)
(*   public/audio/generate_metadata.py (the simple generator)              *)
(*                                                                         *)
(* Three specifications:                                                   *)
(*   SpecCue    one call of AudioAnalyzer.generate_cue_points, statement   *)
(*              by statement, in IEEE-754 binary64 arithmetic;             *)
(*   SpecTitle  one call of filename_to_title / generate_track_id;         *)
(*   Spec       one run of either script over a directory.                 *)
(***************************************************************************)
EXTENDS Integers, Sequences, FiniteSets

VARIABLES
    \* one call of generate_cue_points(duration, bpm)
    duration, bpm, seconds_per_16_bars, cue_points, current_time, pc,
    \* one call of filename_to_title(filename) / generate_track_id(filename)
    filename, name, title, track_id, tpc,
    \* one run of a script
    script, listing, probe, tempo, chroma, mp3_files, idx, tracks,
    estimated, rpc, error, exit_code, document

cueVars == <<duration, bpm, seconds_per_16_bars, cue_points, current_time, pc>>
titleVars == <<filename, name, title, track_id, tpc>>
runVars == <<script, listing, probe, tempo, chroma, mp3_files, idx, tracks,
             estimated, rpc, error, exit_code, document>>
vars == <<cueVars, titleVars, runVars>>

(***************************************************************************)
(* Bounds of the model.                                                    *)
(***************************************************************************)
MaxBpm == 180
MaxNegBpm == 2
MaxDuration == 210
MaxNegDuration == 1
MaxCues == 230

(***************************************************************************)
(* IEEE-754 binary64 values, as Python's float.  A value is                *)
(*   (-1)^sign * (hi + mid / 2^30 + lo / 2^60) * 2^exp                      *)
(* with 0 <= mid, lo < 2^30 and at most 53 significant bits.  exp is only  *)
(* used to scale by a power of two (-6 for 60.0 / bpm, 0 afterwards), so   *)
(* that every value of generate_cue_points is exact in this form for       *)
(* 1 <= |bpm| < 2^16.                                                      *)
(***************************************************************************)
Limb == 2^30

Abs(n) == IF n < 0 THEN -n ELSE n

RECURSIVE BitLen(_)
BitLen(n) == IF n = 0 THEN 0 ELSE 1 + BitLen(n \div 2)

\* carries of lo into mid and of mid into hi
Normalize(hi, mid, lo) ==
    LET lo2 == lo % Limb
        m1 == mid + (lo \div Limb)
        mid2 == m1 % Limb
        hi2 == hi + (m1 \div Limb)
    IN  <<hi2, mid2, lo2>>

\* round-to-nearest, ties-to-even, to 53 significant bits; sticky tells that
\* the exact value has non-zero bits below 2^-60
Round53(hi, mid, lo, sticky) ==
    LET drop == IF hi > 0 THEN 7 + BitLen(hi) ELSE BitLen(mid) - 23
        unit == 2^drop
        half == 2^(drop - 1)
        r == lo % unit
        kept == lo - r
        odd == (lo \div unit) % 2 = 1
        up == \/ r > half
              \/ r = half /\ sticky
              \/ r = half /\ ~sticky /\ odd
    IN  Normalize(hi, mid, IF up THEN kept + unit ELSE kept)

\* float(n) / float(d) for integers n > 0, d # 0:  python's n.0 / d
FDiv(n, d) ==
    LET m == Abs(d)
        n0 == n * 64
        hi == n0 \div m
        r0 == n0 % m
        d1 == (r0 * 2^15) \div m
        r1 == (r0 * 2^15) % m
        d2 == (r1 * 2^15) \div m
        r2 == (r1 * 2^15) % m
        d3 == (r2 * 2^15) \div m
        r3 == (r2 * 2^15) % m
        d4 == (r3 * 2^15) \div m
        r4 == (r3 * 2^15) % m
        q == Round53(hi, d1 * 2^15 + d2, d3 * 2^15 + d4, r4 # 0)
    IN  [sign |-> d < 0, hi |-> q[1], mid |-> q[2], lo |-> q[3], exp |-> -6]

\* x * 64: exact, a power of two
FMul64(x) == [x EXCEPT !.exp = x.exp + 6]

\* x + y for two values of the same sign and exponent 0
FAdd(x, y) ==
    LET s == Normalize(x.hi + y.hi, x.mid + y.mid, x.lo + y.lo)
        q == Round53(s[1], s[2], s[3], FALSE)
    IN  [sign |-> x.sign, hi |-> q[1], mid |-> q[2], lo |-> q[3], exp |-> 0]

\* x < n for a float x (exponent 0) and an int n: python compares exactly
FLess(x, n) ==
    IF x.sign
    THEN x.hi > -n \/ (x.hi = -n /\ (x.mid > 0 \/ x.lo > 0))
    ELSE x.hi < n

\* int(x): truncation toward zero
FInt(x) == IF x.sign THEN -x.hi ELSE x.hi

FZero == [sign |-> FALSE, hi |-> 0, mid |-> 0, lo |-> 0, exp |-> 0]

(***************************************************************************)
(* AudioAnalyzer.generate_cue_points(duration, bpm)                        *)
(***************************************************************************)
seconds_per_beat(b) == FDiv(60, b)

SecondsPer16Bars(b) == FMul64(seconds_per_beat(b))

\* the loop condition without the margin of 10 seconds
LoopCondNoMargin(t, d) == FLess(t, d)

\* while current_time < duration - 10
LoopCond(t, d) == FLess(t, d - 10)

BpmValues == (-MaxNegBpm .. MaxBpm) \cup {3840, 3841}
DurationValues == -MaxNegDuration .. MaxDuration

InitCueIdle ==
    /\ duration = 0 /\ bpm = 0 /\ seconds_per_16_bars = FZero
    /\ cue_points = <<>> /\ current_time = FZero /\ pc = "idle"

InitTitleIdle ==
    /\ filename = <<>> /\ name = <<>> /\ title = <<>> /\ track_id = <<>>
    /\ tpc = "idle"

InitRunIdle ==
    /\ script = "none" /\ listing = {} /\ probe = <<>> /\ tempo = <<>>
    /\ chroma = <<>> /\ mp3_files = <<>> /\ idx = 0
    /\ tracks = <<>> /\ estimated = {} /\ rpc = "idle" /\ error = "none"
    /\ exit_code = -1 /\ document = [written |-> FALSE, tracks |-> <<>>]

InitCue ==
    /\ duration \in DurationValues
    /\ bpm \in BpmValues
    /\ seconds_per_16_bars = FZero
    /\ cue_points = <<>>
    /\ current_time = FZero
    /\ pc = "call"
    /\ InitTitleIdle /\ InitRunIdle

\* lines 77-85: the division raises ZeroDivisionError for bpm = 0
GcpEnter ==
    /\ pc = "call"
    /\ IF bpm = 0
       THEN /\ pc' = "ZeroDivisionError"
            /\ UNCHANGED <<seconds_per_16_bars, cue_points, current_time>>
       ELSE /\ seconds_per_16_bars' = SecondsPer16Bars(bpm)
            /\ cue_points' = <<0>>
            /\ current_time' = SecondsPer16Bars(bpm)
            /\ pc' = "loop"
    /\ UNCHANGED <<duration, bpm, titleVars, runVars>>

\* lines 86-88: one iteration of the loop
GcpAppend ==
    /\ pc = "loop"
    /\ LoopCond(current_time, duration)
    /\ Len(cue_points) < MaxCues
    /\ cue_points' = Append(cue_points, FInt(current_time))
    /\ current_time' = FAdd(current_time, seconds_per_16_bars)
    /\ UNCHANGED <<duration, bpm, seconds_per_16_bars, pc, titleVars, runVars>>

\* line 90
GcpReturn ==
    /\ pc = "loop"
    /\ ~LoopCond(current_time, duration)
    /\ pc' = "returned"
    /\ UNCHANGED <<duration, bpm, seconds_per_16_bars, cue_points, current_time,
                   titleVars, runVars>>

NextCue == GcpEnter \/ GcpAppend \/ GcpReturn

SpecCue == InitCue /\ [][NextCue]_vars

\* the whole call as a function, for a bpm >= 0: the list returned, or the
\* exception raised
RECURSIVE CueLoop(_, _, _, _)
CueLoop(cues, t, s, d) ==
    IF LoopCond(t, d)
    THEN CueLoop(Append(cues, FInt(t)), FAdd(t, s), s, d)
    ELSE cues

\* generate_cue_points with a guard that returns [0] for bpm = 0
GenerateCuePointsGuarded(d, b) ==
    IF b = 0
    THEN [raised |-> "none", value |-> <<0>>]
    ELSE [raised |-> "none",
          value |-> CueLoop(<<0>>, SecondsPer16Bars(b), SecondsPer16Bars(b), d)]

generate_cue_points(d, b) ==
    IF b = 0
    THEN [raised |-> "ZeroDivisionError", value |-> <<>>]
    ELSE [raised |-> "none",
          value |-> CueLoop(<<0>>, SecondsPer16Bars(b), SecondsPer16Bars(b), d)]

(***************************************************************************)
(* Claims about generate_cue_points (SpecCue).                             *)
(***************************************************************************)
\* the cue points of the exact arithmetic: 0, then floor(k * 64 * 60 / b) for
\* k = 1, 2, ... while k * 64 * 60 / b < d - 10   (b > 0)
ExactCount(d, b) == IF d - 10 <= 0 THEN 0 ELSE ((d - 10) * b - 1) \div (64 * 60)

ExactCues(d, b) ==
    [i \in 1 .. ExactCount(d, b) + 1 |-> ((i - 1) * 64 * 60) \div b]

\* C1: for every positive integer bpm and every integer duration, the list
\* returned is exactly 0 followed by floor(k * 64 * 60 / bpm) for k = 1, 2, ...
\* taken while k * 64 * 60 / bpm < duration - 10.
C1_ExactCuePoints ==
    (pc = "returned" /\ bpm > 0) => cue_points = ExactCues(duration, bpm)

\* C2: for every positive integer bpm and every duration, the list returned
\* starts with 0 and is strictly increasing.
C2_StrictlyIncreasing ==
    (pc = "returned" /\ bpm > 0) =>
        /\ cue_points[1] = 0
        /\ \A i \in 1 .. Len(cue_points) - 1 : cue_points[i] < cue_points[i + 1]

\* C4: called with bpm <= 0, generate_cue_points fails fast with an error: it
\* never returns a list and never appends a cue point after the initial 0.
C4_NonPositiveBpmFailsFast ==
    bpm <= 0 => (pc # "returned" /\ Len(cue_points) <= 1)

(***************************************************************************)
(* Strings are sequences of one-character strings.                         *)
(***************************************************************************)
\* the characters of the model, in code point order
Chars ==
    << " ", "-", ".", "0", "1", "2", "3", "4", "5", "6", "7", "8", "9",
       "A", "B", "C", "D", "E", "F", "G", "H", "I", "J", "K", "L", "M",
       "N", "O", "P", "Q", "R", "S", "T", "U", "V", "W", "X", "Y", "Z",
       "a", "b", "c", "d", "e", "f", "g", "h", "i", "j", "k", "l", "m",
       "n", "o", "p", "q", "r", "s", "t", "u", "v", "w", "x", "y", "z" >>

Ord(ch) == CHOOSE i \in 1 .. Len(Chars) : Chars[i] = ch

IsDigit(ch) == Ord(ch) \in Ord("0") .. Ord("9")
IsUpper(ch) == Ord(ch) \in Ord("A") .. Ord("Z")
IsLower(ch) == Ord(ch) \in Ord("a") .. Ord("z")
IsCased(ch) == IsUpper(ch) \/ IsLower(ch)
ToUpper(ch) == IF IsLower(ch) THEN Chars[Ord(ch) - Ord("a") + Ord("A")] ELSE ch
ToLower(ch) == IF IsUpper(ch) THEN Chars[Ord(ch) - Ord("A") + Ord("a")] ELSE ch

DotMp3 == << ".", "m", "p", "3" >>

EndsWith(str, suffix) ==
    /\ Len(str) >= Len(suffix)
    /\ SubSeq(str, Len(str) - Len(suffix) + 1, Len(str)) = suffix

\* the positions at which r'-\d+\.mp3$' matches: a hyphen, one or more digits,
\* ".mp3", the end of the string
SuffixMatches(str) ==
    { i \in 1 .. Len(str) :
        /\ str[i] = "-"
        /\ Len(str) - i >= Len(DotMp3) + 1
        /\ EndsWith(str, DotMp3)
        /\ \A j \in i + 1 .. Len(str) - Len(DotMp3) : IsDigit(str[j]) }

\* re.sub(r'-\d+\.mp3$', '', str): the leftmost match is removed; the pattern
\* is anchored at the end, so nothing is left to its right
ReSubNumericSuffix(str) ==
    IF SuffixMatches(str) = {}
    THEN str
    ELSE LET i == CHOOSE m \in SuffixMatches(str) : \A o \in SuffixMatches(str) : m <= o
         IN  SubSeq(str, 1, i - 1)

\* str.replace('-', ' ')
ReplaceHyphens(str) == [i \in 1 .. Len(str) |-> IF str[i] = "-" THEN " " ELSE str[i]]

\* str.title(): a cased character is upper-cased when the character before it
\* is not cased (or there is none), and lower-cased otherwise
StrTitle(str) ==
    [i \in 1 .. Len(str) |->
        IF i > 1 /\ IsCased(str[i - 1]) THEN ToLower(str[i]) ELSE ToUpper(str[i])]

\* str.replace('.mp3', ''): every occurrence, left to right, without overlap
RECURSIVE RemoveDotMp3(_)
RemoveDotMp3(str) ==
    IF str = <<>> THEN <<>>
    ELSE IF Len(str) >= Len(DotMp3) /\ SubSeq(str, 1, Len(DotMp3)) = DotMp3
         THEN RemoveDotMp3(SubSeq(str, Len(DotMp3) + 1, Len(str)))
         ELSE <<Head(str)>> \o RemoveDotMp3(Tail(str))

\* AudioAnalyzer.filename_to_title
filename_to_title(f) == StrTitle(ReplaceHyphens(ReSubNumericSuffix(f)))

\* generate_metadata.filename_to_title
gm_filename_to_title(f) == StrTitle(ReplaceHyphens(ReSubNumericSuffix(f)))

\* AudioAnalyzer.generate_track_id
generate_track_id(f) == RemoveDotMp3(f)

\* generate_metadata.generate_track_id
gm_generate_track_id(f) == RemoveDotMp3(f)

(***************************************************************************)
(* SpecTitle: filename_to_title and generate_track_id on one filename.     *)
(* The scripts only pass names that end in ".mp3".                         *)
(***************************************************************************)
MaxStem == 4

StemChars == {"a", "B", "-", "1", "."}

RECURSIVE Strings(_)
Strings(n) ==
    IF n = 0 THEN {<<>>}
    ELSE Strings(n - 1) \cup
         { Append(str, ch) : str \in { t \in Strings(n - 1) : Len(t) = n - 1 }, ch \in StemChars }

IntroMp3 == << "i", "n", "t", "r", "o" >> \o DotMp3

EpicMp3 ==
    << "e", "p", "i", "c", "-", "d", "u", "b", "s", "t", "e", "p", "-",
       "d", "r", "o", "p", "-", "0", "4", "2" >> \o DotMp3

Filenames == { stem \o DotMp3 : stem \in Strings(MaxStem) } \cup {IntroMp3, EpicMp3}

InitTitle ==
    /\ script \in {"analyze", "generate"}
    /\ filename \in Filenames
    /\ name = <<>> /\ title = <<>> /\ track_id = <<>>
    /\ tpc = "call"
    /\ InitCueIdle
    /\ listing = {} /\ probe = <<>> /\ tempo = <<>>
    /\ chroma = <<>> /\ mp3_files = <<>> /\ idx = 0
    /\ tracks = <<>> /\ estimated = {} /\ rpc = "idle" /\ error = "none"
    /\ exit_code = -1 /\ document = [written |-> FALSE, tracks |-> <<>>]

\* the title of the record: lines 121-129 (analyzer), lines 21-28 (generator)
CallTitle ==
    /\ tpc = "call"
    /\ name' = ReSubNumericSuffix(filename)
    /\ title' = IF script = "analyze" THEN filename_to_title(filename)
                                      ELSE gm_filename_to_title(filename)
    /\ tpc' = "titled"
    /\ UNCHANGED <<filename, track_id, cueVars, script, listing, probe, tempo, chroma,
                   mp3_files, idx, tracks, estimated, rpc, error, exit_code, document>>

\* the id of the record: lines 131-133 (analyzer), lines 30-32 (generator)
CallTrackId ==
    /\ tpc = "titled"
    /\ track_id' = IF script = "analyze" THEN generate_track_id(filename)
                                         ELSE gm_generate_track_id(filename)
    /\ tpc' = "done"
    /\ UNCHANGED <<filename, name, title, cueVars, runVars>>

NextTitle == CallTitle \/ CallTrackId

SpecTitle == InitTitle /\ [][NextTitle]_vars

\* C7: for every filename that does not end in "-<digits>.mp3", the title is
\* the filename with the ".mp3" extension removed, hyphens replaced by spaces
\* and each word capitalized (in both scripts).
C7_TitleWithoutNumericSuffix ==
    (tpc # "call" /\ SuffixMatches(filename) = {}) =>
        title = StrTitle(ReplaceHyphens(SubSeq(filename, 1, Len(filename) - Len(DotMp3))))

(***************************************************************************)
(* The collaborators of a run: the directory listing, the media prober,    *)
(* the beat tracker and the chromagram, fixed per file when the run        *)
(* starts.                                                                 *)
(*   probe[f]   [ok, seconds]: ffprobe succeeded and printed a duration    *)
(*              that int(float(..)) turns into seconds, or anything failed *)
(*   tempo[f]   [kind, v]: what librosa.load / beat_track do; v lists the  *)
(*              tempo value(s) in half beats per minute (239 is 119.5)     *)
(*   chroma[f]  [raises, key_index]: what load / chroma_cqt / argmax do    *)
(***************************************************************************)
MaxFiles == 3
LongFiles == 19

ProbeFailed == [ok |-> FALSE, seconds |-> 0]

Probed(d) == [ok |-> TRUE, seconds |-> d]

TempoRaises == [kind |-> "raises", v |-> <<>>]   \* load or beat_track raises

TempoOutcomes ==
    { TempoRaises,
      [kind |-> "scalar", v |-> <<1>>],        \* 0.5
      [kind |-> "scalar", v |-> <<239>>],      \* 119.5
      [kind |-> "array", v |-> <<360, 180>>],  \* array([180.0, 90.0])
      [kind |-> "array", v |-> <<>>],          \* array([])
      [kind |-> "array0d", v |-> <<240>>] }    \* array(120.0)

ChromaRaises == [raises |-> TRUE, key_index |-> 0]

ChromaOutcomes == { ChromaRaises, [raises |-> FALSE, key_index |-> 9] }

\* what the collaborators do for one file: the probe fails (the estimators are
\* then never asked, or their answer is never used); or the file lasts 138
\* seconds, with every outcome of the two estimators; or it lasts 5 seconds
FileOutcomes ==
    { [probe |-> ProbeFailed, tempo |-> TempoRaises, chroma |-> ChromaRaises] }
    \cup { [probe |-> Probed(138), tempo |-> t, chroma |-> c] :
             t \in TempoOutcomes, c \in ChromaOutcomes }
    \cup { [probe |-> Probed(5), tempo |-> [kind |-> "scalar", v |-> <<239>>],
            chroma |-> [raises |-> FALSE, key_index |-> 9]] }

\* round(x) of python 3 for x = h / 2: to nearest, ties to even
PyRound(h) ==
    LET q == h \div 2
    IN  IF h % 2 = 0 THEN q ELSE IF q % 2 = 0 THEN q ELSE q + 1

\* AudioAnalyzer.detect_bpm: every exception is caught and gives 120
detect_bpm(t) ==
    IF t.kind = "raises" THEN 120
    ELSE IF t.kind = "scalar" THEN PyRound(t.v[1])
    ELSE IF t.kind = "array0d" THEN 120            \* len() of an unsized object
    ELSE IF Len(t.v) > 0 THEN PyRound(t.v[1])
    ELSE 120                                       \* float() of an empty array

keys == << "C", "C#", "D", "D#", "E", "F", "F#", "G", "G#", "A", "A#", "B" >>

\* AudioAnalyzer.detect_key: every exception is caught and gives None
detect_key(c) == IF c.raises THEN "None" ELSE keys[c.key_index + 1]

colors ==
    << "#00F0FF", "#FF006E", "#00FF00", "#FFFF00", "#FF00FF",
       "#00FFFF", "#FF8800", "#8800FF", "#FF0088", "#88FF00",
       "#0088FF", "#FF8888", "#88FF88", "#8888FF", "#FFAA00",
       "#AA00FF", "#00FFAA", "#FF00AA" >>

\* colors[idx % len(colors)], idx counted from 0
WaveformColor(i) == colors[(i % Len(colors)) + 1]

\* lexicographic order of strings by code point
RECURSIVE LexLess(_, _)
LexLess(x, y) ==
    IF y = <<>> THEN FALSE
    ELSE IF x = <<>> THEN TRUE
    ELSE IF Head(x) = Head(y) THEN LexLess(Tail(x), Tail(y))
    ELSE Ord(Head(x)) < Ord(Head(y))

\* sorted(..) of a collection of distinct names
RECURSIVE sorted(_)
sorted(S) ==
    IF S = {} THEN <<>>
    ELSE LET least == CHOOSE x \in S : \A y \in S \ {x} : LexLess(x, y)
         IN  <<least>> \o sorted(S \ {least})

\* glob('*.mp3') / f.endswith('.mp3')
Mp3Of(S) == { f \in S : EndsWith(f, DotMp3) }

\* AudioAnalyzer.analyze_track: None when the probe fails, else the analysis,
\* or the exception generate_cue_points raises
analyze_track(f, pr, te, ch) ==
    IF ~pr.ok
    THEN [none |-> TRUE, raised |-> "none", duration |-> 0, bpm |-> 0,
          key |-> "None", cue_points |-> <<>>]
    ELSE LET b == detect_bpm(te)
             k == detect_key(ch)
             cp == generate_cue_points(pr.seconds, b)
         IN  [none |-> FALSE, raised |-> cp.raised, duration |-> pr.seconds,
              bpm |-> b, key |-> k, cue_points |-> cp.value]

\* track['key'] = analysis['key']
WithKey(track, k) ==
    [x \in DOMAIN track \cup {"key"} |-> IF x = "key" THEN k ELSE track[x]]

\* the color chosen by the position in the output list
AnalyzerColorByOutput(i, out) == WaveformColor(out)

\* the color of an analyzer record: colors[idx % len(colors)] with the idx of
\* enumerate(mp3_files); out, the length of tracks so far, plays no part
AnalyzerColor(i, out) == WaveformColor(i)

\* the record of lines 162-175
AnalyzerTrack(f, i, out, analysis) ==
    LET track == [id |-> generate_track_id(f),
                  title |-> filename_to_title(f),
                  artist |-> "Pixabay",
                  bpm |-> analysis.bpm,
                  duration |-> analysis.duration,
                  filename |-> f,
                  cuePoints |-> analysis.cue_points,
                  waveformColor |-> AnalyzerColor(i, out)]
    IN  IF analysis.key # "None" THEN WithKey(track, analysis.key) ELSE track

\* generate_metadata.get_duration
get_duration(pr) == IF pr.ok THEN pr.seconds ELSE 180

\* the record of generate_metadata.py lines 50-59
GeneratorTrack(f, i, pr) ==
    [id |-> gm_generate_track_id(f),
     title |-> gm_filename_to_title(f),
     artist |-> "Pixabay",
     bpm |-> 120,
     duration |-> get_duration(pr),
     filename |-> f,
     cuePoints |-> <<0>>,
     waveformColor |-> WaveformColor(i)]

(***************************************************************************)
(* The directories of the model: up to MaxFiles names of a small pool with *)
(* every combination of per-file outcomes, and a directory of LongFiles    *)
(* tracks of which up to two cannot be probed.                             *)
(***************************************************************************)
NamePool ==
    { << "b", "-", "2" >> \o DotMp3,
      << "a" >> \o DotMp3,
      << "a", "-", "1", "0" >> \o DotMp3,
      << "n", "o", "t", "e", "s", ".", "t", "x", "t" >> }

Digit(n) == Chars[Ord("0") + n]

LongName(i) == << "t", "-", Digit(i \div 10), Digit(i % 10) >> \o DotMp3

LongNames == { LongName(i) : i \in 0 .. LongFiles - 1 }

ShortScenarios ==
    UNION { { [listing |-> S,
               probe |-> [f \in Mp3Of(S) |-> o[f].probe],
               tempo |-> [f \in Mp3Of(S) |-> o[f].tempo],
               chroma |-> [f \in Mp3Of(S) |-> o[f].chroma]] :
                o \in [Mp3Of(S) -> FileOutcomes] } :
            S \in { T \in SUBSET NamePool : Cardinality(T) <= MaxFiles } }

LongFailures ==
    { {} } \cup { { LongName(i), LongName(j) } : i, j \in 0 .. LongFiles - 1 }

LongScenarios ==
    { [listing |-> LongNames,
       probe |-> [f \in LongNames |-> IF f \in F THEN ProbeFailed ELSE Probed(200)],
       tempo |-> [f \in LongNames |-> [kind |-> "scalar", v |-> <<239>>]],
       chroma |-> [f \in LongNames |-> [raises |-> FALSE, key_index |-> 9]]] :
      F \in LongFailures }

Scenarios == ShortScenarios \cup LongScenarios

NoDocument == [written |-> FALSE, tracks |-> <<>>]

InitRun ==
    /\ script \in {"analyze", "generate"}
    /\ \E sc \in Scenarios :
          /\ listing = sc.listing
          /\ probe = sc.probe
          /\ tempo = sc.tempo
          /\ chroma = sc.chroma
    /\ mp3_files = <<>> /\ idx = 0 /\ tracks = <<>> /\ estimated = {}
    /\ rpc = "start" /\ error = "none" /\ exit_code = -1
    /\ document = NoDocument
    /\ InitCueIdle /\ InitTitleIdle

envVars == <<script, listing, probe, tempo, chroma>>

\* analyze_audio.py lines 138-152: the scan; an empty scan prints a notice and
\* returns, main returns and the interpreter exits with 0
AnalyzerScan ==
    /\ script = "analyze" /\ rpc = "start"
    /\ mp3_files' = sorted(Mp3Of(listing))
    /\ IF Mp3Of(listing) = {}
       THEN rpc' = "exit" /\ exit_code' = 0
       ELSE rpc' = "loop" /\ exit_code' = exit_code
    /\ UNCHANGED <<envVars, idx, tracks, estimated, error, document, cueVars, titleVars>>

\* analyze_audio.py lines 154-178: one iteration of the loop, analyze_track
\* included; an exception of generate_cue_points is caught nowhere and ends
\* the process with exit code 1
AnalyzerTrackStep ==
    /\ script = "analyze" /\ rpc = "loop" /\ idx < Len(mp3_files)
    /\ LET f == mp3_files[idx + 1]
           analysis == analyze_track(f, probe[f], tempo[f], chroma[f])
       IN  /\ estimated' = IF analysis.none THEN estimated ELSE estimated \cup {f}
           /\ IF analysis.none
              THEN /\ idx' = idx + 1
                   /\ UNCHANGED <<tracks, rpc, error, exit_code>>
              ELSE IF analysis.raised # "none"
              THEN /\ rpc' = "exit" /\ error' = analysis.raised /\ exit_code' = 1
                   /\ UNCHANGED <<idx, tracks>>
              ELSE /\ tracks' = Append(tracks, AnalyzerTrack(f, idx, Len(tracks), analysis))
                   /\ idx' = idx + 1
                   /\ UNCHANGED <<rpc, error, exit_code>>
    /\ UNCHANGED <<envVars, mp3_files, document, cueVars, titleVars>>

\* analyze_audio.py lines 181-191 and main: the document is written, or open /
\* json.dump raise and the process ends with exit code 1
AnalyzerWrite ==
    /\ script = "analyze" /\ rpc = "loop" /\ idx = Len(mp3_files)
    /\ \E ok \in BOOLEAN :
          IF ok
          THEN /\ document' = [written |-> TRUE, tracks |-> tracks]
               /\ exit_code' = 0 /\ error' = error
          ELSE /\ document' = document
               /\ exit_code' = 1 /\ error' = "OSError"
    /\ rpc' = "exit"
    /\ UNCHANGED <<envVars, mp3_files, idx, tracks, estimated, cueVars, titleVars>>

\* generate_metadata.py lines 35-44
GeneratorScan ==
    /\ script = "generate" /\ rpc = "start"
    /\ mp3_files' = sorted(Mp3Of(listing))
    /\ rpc' = "loop"
    /\ UNCHANGED <<envVars, idx, tracks, estimated, error, exit_code, document,
                   cueVars, titleVars>>

\* generate_metadata.py lines 46-60: one iteration of the loop
GeneratorTrackStep ==
    /\ script = "generate" /\ rpc = "loop" /\ idx < Len(mp3_files)
    /\ LET f == mp3_files[idx + 1]
       IN  tracks' = Append(tracks, GeneratorTrack(f, idx, probe[f]))
    /\ idx' = idx + 1
    /\ UNCHANGED <<envVars, mp3_files, estimated, rpc, error, exit_code, document,
                   cueVars, titleVars>>

\* generate_metadata.py lines 62-71
GeneratorWrite ==
    /\ script = "generate" /\ rpc = "loop" /\ idx = Len(mp3_files)
    /\ \E ok \in BOOLEAN :
          IF ok
          THEN /\ document' = [written |-> TRUE, tracks |-> tracks]
               /\ exit_code' = 0 /\ error' = error
          ELSE /\ document' = document
               /\ exit_code' = 1 /\ error' = "OSError"
    /\ rpc' = "exit"
    /\ UNCHANGED <<envVars, mp3_files, idx, tracks, estimated, cueVars, titleVars>>

Next ==
    \/ AnalyzerScan \/ AnalyzerTrackStep \/ AnalyzerWrite
    \/ GeneratorScan \/ GeneratorTrackStep \/ GeneratorWrite

Spec == InitRun /\ [][Next]_vars

(***************************************************************************)
(* Claims about a run (Spec).                                              *)
(***************************************************************************)
Written == document.tracks

WrittenIndices == IF document.written THEN 1 .. Len(document.tracks) ELSE {}

\* 0-based position of a file in the sorted scan of all matching files
ScanIndex(f) == Cardinality({ g \in Mp3Of(listing) : LexLess(g, f) })

\* C3: in every track record written, by either script, every cue point c
\* satisfies c < duration - 10.
C3_NoCueNearEnd ==
    \A k \in WrittenIndices :
        \A j \in 1 .. Len(Written[k].cuePoints) :
            Written[k].cuePoints[j] < Written[k].duration - 10

\* C3 as amended: in every track record written, by either script, the first
\* cue point is 0 and every later cue point c satisfies c < duration - 10.
C3_NoLaterCueNearEnd ==
    \A k \in WrittenIndices :
        /\ Len(Written[k].cuePoints) >= 1
        /\ Written[k].cuePoints[1] = 0
        /\ \A j \in 2 .. Len(Written[k].cuePoints) :
              Written[k].cuePoints[j] < Written[k].duration - 10

\* a written document with a track of at most 10 seconds, whose only cue point
\* is 0, and a track with cue points up to the last 10 seconds
C3_Witness ==
    /\ document.written
    /\ \E k \in WrittenIndices :
          Written[k].duration <= 10 /\ Written[k].cuePoints = <<0>>
    /\ \E k \in WrittenIndices :
          /\ Len(Written[k].cuePoints) > 1
          /\ Written[k].cuePoints[Len(Written[k].cuePoints)] = Written[k].duration - 11

\* C5: in every track record written, bpm is a positive integer, whatever the
\* beat tracker returns or raises; the fallback value is 120.
C5_BpmPositive ==
    \A k \in WrittenIndices :
        /\ Written[k].bpm \in Nat
        /\ Written[k].bpm >= 1
        /\ script = "generate" => Written[k].bpm = 120
        /\ (script = "analyze" /\ tempo[Written[k].filename].kind = "raises")
              => Written[k].bpm = 120

\* the analyzer wrote a record for a track whose tempo estimation raised and a
\* record for a track whose tempo was estimated
C5_Witness ==
    /\ script = "analyze" /\ document.written
    /\ \E k \in WrittenIndices :
          tempo[Written[k].filename].kind = "raises" /\ Written[k].bpm = 120
    /\ \E k \in WrittenIndices :
          tempo[Written[k].filename].kind = "array" /\ Written[k].bpm = 180

\* C6: whatever the estimators do for a file whose probe succeeded, the
\* analyzer run processes every later file and reaches the step that writes
\* the document; a failed BPM estimation gives bpm = 120 and a failed key
\* estimation gives no key field.
C6_EstimationNeverAborts ==
    /\ (script = "analyze" /\ rpc = "exit" /\ Len(mp3_files) > 0)
          => (idx = Len(mp3_files) /\ error # "ZeroDivisionError")
    /\ script = "analyze" =>
          \A k \in WrittenIndices :
              /\ tempo[Written[k].filename].kind = "raises" => Written[k].bpm = 120
              /\ chroma[Written[k].filename].raises => "key" \notin DOMAIN Written[k]

\* position i of the scan has been handled when the run ended: its iteration
\* completed, or it is the file whose analysis raised
Processed(i) == i <= idx \/ (i = idx + 1 /\ error = "ZeroDivisionError")

\* C8: for any pattern of probe successes and failures, the written tracks of
\* the analyzer are exactly the files whose probe succeeded, one record each,
\* in the order of the sorted scan; a file whose probe failed is never
\* estimated, and every file after it is still processed.
C8_SkipOnlyFailedProbe ==
    script = "analyze" =>
        /\ document.written =>
              /\ { Written[k].filename : k \in WrittenIndices }
                    = { f \in Mp3Of(listing) : probe[f].ok }
              /\ \A i, j \in WrittenIndices :
                    i < j => LexLess(Written[i].filename, Written[j].filename)
        /\ \A f \in estimated : probe[f].ok
        /\ rpc = "exit" =>
              \A i \in 1 .. idx :
                  ~probe[mp3_files[i]].ok =>
                      \A j \in i + 1 .. Len(mp3_files) : Processed(j)

\* C9: an analyzer run ends with exit code 0 only if it wrote the document,
\* and with a non-zero exit code whenever no document was produced.
C9_ExitCodeSignalsOutput ==
    (script = "analyze" /\ rpc = "exit") => (exit_code = 0 <=> document.written)

\* C10: every written record has waveformColor = palette[i mod 18], i the
\* 0-based position of its file in the sorted scan of all matching files; in
\* the simple generator i is also the position of the record in the output.
C10_ColorByScanIndex ==
    \A k \in WrittenIndices :
        /\ Written[k].waveformColor = colors[(ScanIndex(Written[k].filename) % 18) + 1]
        /\ script = "generate" => ScanIndex(Written[k].filename) = k - 1

\* the analyzer wrote a record whose scan position is past the end of the
\* palette and differs from its position in the output
C10_Witness ==
    /\ script = "analyze" /\ document.written
    /\ \E k \in WrittenIndices :
          /\ ScanIndex(Written[k].filename) >= 18
          /\ ScanIndex(Written[k].filename) # k - 1
          /\ Written[k].waveformColor = colors[1]

====
